---- MODULE Spec2Model ----
(***************************************************************************)
(* Inequality measures of src/data/measures.py: gini_from_shares,          *)
(* gini_from_values, palma_ratio, percentile_ratio, theil_t, theil_l and   *)
(* theil_decomposition, as operators over exact numbers, and a state       *)
(* machine whose steps are calls of these functions; and the disk cache of *)
(* src/data/cache.py, cached(), a step at a time by one or two processes,  *)
(* with the loaders of health_social.py and oecd.py that go through it.    *)
(*                                                                         *)
(* Numbers.  A float is modelled by the real number it stands for, so      *)
(* rounding is outside the model ("equal" means equal as reals).  A finite *)
(* real is q + SUM_p l[p] * ln(p): a rational q = <<num, den>> and a        *)
(* rational combination l of logarithms of primes.  The logarithms of the  *)
(* primes are linearly independent over the rationals, so two such numbers *)
(* are equal exactly when their representations are.  IEEE's inf, -inf and *)
(* nan are separate kinds.                                                 *)
(***************************************************************************)
EXTENDS Integers, Sequences, FiniteSets, TLC

VARIABLES
    fn, args, result,   \* the call of a measure in hand, and what it returned
    arrays,             \* what the caller's arrays hold after that call
    now,                \* time.time(), in days
    files,              \* the files of CACHE_DIR: what each path holds
    calls,              \* each process's call of cached(): where it is, its locals
    invoked,            \* for each key, when loader_fn was last called (-1: never)
    stored              \* for each key, when a loaded result was last stored

measure_vars == <<fn, args, result, arrays>>

cache_vars == <<now, files, calls, invoked, stored>>

vars == <<fn, args, result, arrays, now, files, calls, invoked, stored>>

(***************************************************************************)
(* Bounds of the model.                                                    *)
(***************************************************************************)
\* longest value / share / weight vector handed to a function
MaxLen == 3
\* how many entries more than ten a decile vector may have
MaxExtra == 1
\* largest max_age_days handed to cached() by a direct caller
MaxDays == 2

\* len(shares) != 10 in palma_ratio
DecileCount == 10
\* shares[:4] in palma_ratio
BottomCount == 4

(***************************************************************************)
(* Rationals <<n, d>>, d > 0, in lowest terms.                             *)
(***************************************************************************)
Abs(x) == IF x < 0 THEN -x ELSE x

RECURSIVE GCD(_, _)
GCD(a, b) == IF b = 0 THEN a ELSE GCD(b, a % b)

Norm(n, d) ==
    LET s == IF d < 0 THEN -1 ELSE 1
        g == GCD(Abs(n), Abs(d))
    IN  <<(s * n) \div g, (s * d) \div g>>

R(i) == <<i, 1>>
RZero == <<0, 1>>
ROne == <<1, 1>>
RAdd(a, b) == Norm(a[1] * b[2] + b[1] * a[2], a[2] * b[2])
RNeg(a) == <<-a[1], a[2]>>
RSub(a, b) == RAdd(a, RNeg(b))
RMul(a, b) == Norm(a[1] * b[1], a[2] * b[2])
\* b # 0
RDiv(a, b) == Norm(a[1] * b[2], a[2] * b[1])
RLt(a, b) == a[1] * b[2] < b[1] * a[2]
RLe(a, b) == a[1] * b[2] <= b[1] * a[2]
RSign(a) == IF a[1] > 0 THEN 1 ELSE IF a[1] < 0 THEN -1 ELSE 0

\* np.sum of a vector of rationals
RECURSIVE RSum(_)
RSum(s) == IF s = <<>> THEN RZero ELSE RAdd(Head(s), RSum(Tail(s)))

\* np.cumsum
Cumsum(s) == [i \in 1..Len(s) |-> RSum(SubSeq(s, 1, i))]

\* elementwise product of two vectors of the same length
VMul(a, b) == [i \in 1..Len(a) |-> RMul(a[i], b[i])]

(***************************************************************************)
(* Reals and results.                                                      *)
(***************************************************************************)
\* the values and the weights of the observations handed to gini_from_values,
\* theil_t and theil_l; theil_decomposition is given the non-negative ones
ValueInts == {-1, 0, 1, 2}
WeightInts == {0, 1, 2}

SetMax(S) == CHOOSE x \in S : \A y \in S : y <= x

IsPrime(p) == p > 1 /\ \A k \in 2..(p - 1) : p % k # 0

\* a logarithm is only taken of a quotient of sums of at most MaxLen values,
\* weights or products value * weight, so of integers with no larger prime factor
MaxInt == MaxLen * SetMax(ValueInts) * SetMax(WeightInts)

Primes == {p \in 2..MaxInt : IsPrime(p)}

ZeroLL == [p \in Primes |-> RZero]

Fin(q) == [k |-> "fin", q |-> q, l |-> ZeroLL]
FinL(l) == [k |-> "fin", q |-> RZero, l |-> l]
Inf == [k |-> "inf", q |-> RZero, l |-> ZeroLL]
NInf == [k |-> "ninf", q |-> RZero, l |-> ZeroLL]
NaN == [k |-> "nan", q |-> RZero, l |-> ZeroLL]
Zero == Fin(RZero)

\* a call returns a value or raises an exception
Ret(v) == [status |-> "return", exc |-> "none", val |-> v]
Raise(e) == [status |-> "raise", exc |-> e, val |-> NaN]

\* an optional argument: None, or an array
None == [none |-> TRUE, arr |-> <<>>]
Some(a) == [none |-> FALSE, arr |-> a]

\* x / y of two floats where y may be zero (numpy: a warning, then inf or nan)
FloatDiv(x, y) ==
    IF y # RZero THEN Fin(RDiv(x, y))
    ELSE IF x = RZero THEN NaN
    ELSE IF RSign(x) > 0 THEN Inf ELSE NInf

(***************************************************************************)
(* gini_from_shares                                                        *)
(***************************************************************************)
\* a plausible slip: the rectangle rule (the shifted copy of cum_shares left out)
gini_from_shares_rect(shares) ==
    LET n == Len(shares)
        cum_shares == Cumsum(shares)
    IN  IF n = 0 THEN Ret(NaN)
        ELSE Ret(Fin(RSub(ROne, RMul(R(2), RDiv(RSum(cum_shares), R(n))))))

\* a plausible slip: the sign of the result reversed (2 * area - 1)
gini_from_shares_neg(shares) ==
    LET n == Len(shares)
        cum_shares == Cumsum(shares)
        shifted == <<RZero>> \o SubSeq(cum_shares, 1, n - 1)
        lorenz_area == RDiv(RSum([i \in 1..n |-> RAdd(shifted[i], cum_shares[i])]),
                            R(2 * n))
    IN  IF n = 0 THEN Ret(NaN)
        ELSE Ret(Fin(RSub(RMul(R(2), lorenz_area), ROne)))

\* a plausible slip: the trapezoids' half left out (area divided by n, not 2 * n)
gini_from_shares_width(shares) ==
    LET n == Len(shares)
        cum_shares == Cumsum(shares)
        shifted == <<RZero>> \o SubSeq(cum_shares, 1, n - 1)
        lorenz_area == RDiv(RSum([i \in 1..n |-> RAdd(shifted[i], cum_shares[i])]),
                            R(n))
    IN  IF n = 0 THEN Ret(NaN)
        ELSE Ret(Fin(RSub(ROne, RMul(R(2), lorenz_area))))

gini_from_shares(shares) ==
    LET n == Len(shares)
        cum_shares == Cumsum(shares)
        \* np.concatenate([[0], cum_shares[:-1]])
        shifted == <<RZero>> \o SubSeq(cum_shares, 1, n - 1)
        lorenz_area == RDiv(RSum([i \in 1..n |-> RAdd(shifted[i], cum_shares[i])]),
                            R(2 * n))
    IN  \* an empty array: [0] + [] broadcasts to [], whose sum 0.0 is divided by 0
        IF n = 0 THEN Ret(NaN)
        ELSE Ret(Fin(RSub(ROne, RMul(R(2), lorenz_area))))

(***************************************************************************)
(* palma_ratio                                                             *)
(***************************************************************************)
\* a plausible slip: only a too short vector is rejected
palma_ratio_short(decile_shares) ==
    LET shares == decile_shares
        bottom_40 == RSum(SubSeq(shares, 1, BottomCount))
        top_10 == shares[DecileCount]
    IN  IF Len(shares) < DecileCount THEN Raise("ValueError")
        ELSE IF bottom_40 = RZero THEN Ret(Inf)
        ELSE Ret(Fin(RDiv(top_10, bottom_40)))

\* a plausible slip: the bottom half instead of the bottom four deciles
palma_ratio_half(decile_shares) ==
    LET shares == decile_shares
        bottom_40 == RSum(SubSeq(shares, 1, BottomCount + 1))
        top_10 == shares[DecileCount]
    IN  IF Len(shares) # DecileCount THEN Raise("ValueError")
        ELSE IF bottom_40 = RZero THEN Ret(Inf)
        ELSE Ret(Fin(RDiv(top_10, bottom_40)))

palma_ratio(decile_shares) ==
    LET shares == decile_shares
        bottom_40 == RSum(SubSeq(shares, 1, BottomCount))
        top_10 == shares[DecileCount]
    IN  IF Len(shares) # DecileCount THEN Raise("ValueError")
        ELSE IF bottom_40 = RZero THEN Ret(Inf)
        ELSE Ret(Fin(RDiv(top_10, bottom_40)))


(***************************************************************************)
(* percentile_ratio                                                        *)
(***************************************************************************)
\* a plausible slip: dict.get(p, 0) in place of dict[p]
percentile_ratio_get(values_at_percentiles, p_high, p_low) ==
    LET high == IF p_high \in DOMAIN values_at_percentiles
                THEN values_at_percentiles[p_high] ELSE RZero
        low == IF p_low \in DOMAIN values_at_percentiles
               THEN values_at_percentiles[p_low] ELSE RZero
    IN  IF low = RZero THEN Ret(Inf)
        ELSE Ret(Fin(RDiv(high, low)))

\* a plausible slip: the zero test made on high instead of low
percentile_ratio_high(values_at_percentiles, p_high, p_low) ==
    LET high == values_at_percentiles[p_high]
        low == values_at_percentiles[p_low]
    IN  IF p_high \notin DOMAIN values_at_percentiles THEN Raise("KeyError")
        ELSE IF p_low \notin DOMAIN values_at_percentiles THEN Raise("KeyError")
        ELSE IF high = RZero THEN Ret(Inf)
        ELSE IF low = RZero THEN Raise("ZeroDivisionError")
        ELSE Ret(Fin(RDiv(high, low)))

percentile_ratio(values_at_percentiles, p_high, p_low) ==
    LET high == values_at_percentiles[p_high]
        low == values_at_percentiles[p_low]
    IN  \* values_at_percentiles[p_high], then values_at_percentiles[p_low]
        IF p_high \notin DOMAIN values_at_percentiles THEN Raise("KeyError")
        ELSE IF p_low \notin DOMAIN values_at_percentiles THEN Raise("KeyError")
        ELSE IF low = RZero THEN Ret(Inf)
        ELSE Ret(Fin(RDiv(high, low)))

(***************************************************************************)
(* Logarithms: ln of a positive rational as a combination of ln(p).        *)
(***************************************************************************)
\* the exponent of the prime p in the positive integer n
RECURSIVE Exp(_, _)
Exp(p, n) == IF n % p = 0 THEN 1 + Exp(p, n \div p) ELSE 0

\* np.log of a positive rational
LnR(q) == [p \in Primes |-> R(Exp(p, q[1]) - Exp(p, q[2]))]

LLAdd(a, b) == [p \in Primes |-> RAdd(a[p], b[p])]
LLScale(c, a) == [p \in Primes |-> RMul(c, a[p])]

RECURSIVE LLSum(_)
LLSum(s) == IF s = <<>> THEN ZeroLL ELSE LLAdd(Head(s), LLSum(Tail(s)))

\* a plausible slip: the values are taken in the order given
Argsorts_given(values) == {[i \in 1..Len(values) |-> i]}

(***************************************************************************)
(* gini_from_values                                                        *)
(***************************************************************************)
\* np.argsort(values): a permutation of the indices that sorts the values; which
\* one among equal values is the sort's choice
RECURSIVE ArgsortsOf(_, _)
ArgsortsOf(values, left) ==
    IF left = {} THEN {<<>>}
    ELSE UNION {{<<i>> \o rest : rest \in ArgsortsOf(values, left \ {i})} :
                    i \in {k \in left : \A m \in left : RLe(values[k], values[m])}}

Argsorts(values) == ArgsortsOf(values, 1..Len(values))

\* np.sort(values)
Sorted(values) ==
    LET idx == CHOOSE i \in Argsorts(values) : TRUE
    IN  [i \in 1..Len(values) |-> values[idx[i]]]

\* a plausible slip: the guard only excludes a denominator of zero
gini_from_values_nonzero(values_in, weights_in, sorted_idx) ==
    IF ~weights_in.none
    THEN LET n == Len(values_in)
             values == [i \in 1..n |-> values_in[sorted_idx[i]]]
             \* weights[sorted_idx] reads the first n weights only
             weights == [i \in 1..n |-> weights_in.arr[sorted_idx[i]]]
             cum_weights == Cumsum(weights)
             cum_weighted_values == Cumsum(VMul(values, weights))
             total_weight == cum_weights[n]
             total_value == cum_weighted_values[n]
             half == RDiv(RMul(total_value, total_weight), R(2))
             numerator == RSub(RSum(VMul(cum_weights, VMul(values, weights))), half)
             denominator == half
         IN  \* an index of sorted_idx beyond the weights
             IF Len(weights_in.arr) < n THEN Raise("IndexError")
             \* cum_weights[-1] of an empty array
             ELSE IF n = 0 THEN Raise("IndexError")
             ELSE IF RSign(denominator) # 0
                  THEN Ret(Fin(RDiv(numerator, denominator)))
                  ELSE Ret(Zero)
    ELSE LET values == Sorted(values_in)
             n == Len(values)
             weighted == RSum([i \in 1..n |-> RMul(R(i), values[i])])
             first == FloatDiv(RMul(R(2), weighted), RMul(R(n), RSum(values)))
         IN  IF n = 0 THEN Ret(Zero)
             ELSE IF first.k = "fin"
                  THEN Ret(Fin(RSub(first.q, RDiv(R(n + 1), R(n)))))
                  \* inf, -inf or nan, less a finite number
                  ELSE Ret(first)

gini_from_values(values_in, weights_in, sorted_idx) ==
    IF ~weights_in.none
    THEN LET n == Len(values_in)
             values == [i \in 1..n |-> values_in[sorted_idx[i]]]
             \* weights[sorted_idx] reads the first n weights only
             weights == [i \in 1..n |-> weights_in.arr[sorted_idx[i]]]
             cum_weights == Cumsum(weights)
             cum_weighted_values == Cumsum(VMul(values, weights))
             total_weight == cum_weights[n]
             total_value == cum_weighted_values[n]
             half == RDiv(RMul(total_value, total_weight), R(2))
             numerator == RSub(RSum(VMul(cum_weights, VMul(values, weights))), half)
             denominator == half
         IN  \* an index of sorted_idx beyond the weights
             IF Len(weights_in.arr) < n THEN Raise("IndexError")
             \* cum_weights[-1] of an empty array
             ELSE IF n = 0 THEN Raise("IndexError")
             ELSE IF RSign(denominator) > 0
                  THEN Ret(Fin(RDiv(numerator, denominator)))
                  ELSE Ret(Zero)
    ELSE LET values == Sorted(values_in)
             n == Len(values)
             weighted == RSum([i \in 1..n |-> RMul(R(i), values[i])])
             first == FloatDiv(RMul(R(2), weighted), RMul(R(n), RSum(values)))
         IN  IF n = 0 THEN Ret(Zero)
             ELSE IF first.k = "fin"
                  THEN Ret(Fin(RSub(first.q, RDiv(R(n + 1), R(n)))))
                  \* inf, -inf or nan, less a finite number
                  ELSE Ret(first)

(***************************************************************************)
(* theil_t, theil_l                                                        *)
(***************************************************************************)
\* values[values > 0]
Positive(values) == SelectSeq(values, LAMBDA v : RSign(v) > 0)

\* a plausible slip: the values summed without their weights
Average_plain(values, weights) == RDiv(RSum(values), RSum(weights))

\* np.average(values, weights=weights), the weights not summing to zero
Average(values, weights) == RDiv(RSum(VMul(values, weights)), RSum(weights))

\* weights[mask] for the mask values > 0 of as many values
RECURSIVE PositiveOf(_, _)
PositiveOf(values, weights) ==
    IF values = <<>> THEN <<>>
    ELSE (IF RSign(Head(values)) > 0 THEN <<Head(weights)>> ELSE <<>>)
         \o PositiveOf(Tail(values), Tail(weights))

\* np.mean(values), values not empty
Mean(values) == RDiv(RSum(values), R(Len(values)))

Ones(n) == [i \in 1..n |-> ROne]

\* the average, with the given weights, of r * ln(r) over the ratios r = value / mean
AvgRLogR(values, weights, mean_val) ==
    LLSum([i \in 1..Len(values) |->
        LET r == RDiv(values[i], mean_val)
        IN  LLScale(RDiv(RMul(weights[i], r), RSum(weights)), LnR(r))])

\* the average, with the given weights, of ln(mean / value)
AvgLogInv(values, weights, mean_val) ==
    LLSum([i \in 1..Len(values) |->
        LLScale(RDiv(weights[i], RSum(weights)), LnR(RDiv(mean_val, values[i])))])

\* a plausible slip: the weights are masked before the test for an empty sample
theil_t_weights_first(values_in, weights_in) ==
    LET values == Positive(values_in)
    IN  IF ~weights_in.none /\ Len(weights_in.arr) # Len(values_in)
        THEN Raise("IndexError")
        ELSE IF Len(values) = 0 THEN Ret(Zero)
        ELSE IF ~weights_in.none
        THEN LET weights == PositiveOf(values_in, weights_in.arr)
             IN  IF RSum(weights) = RZero THEN Raise("ZeroDivisionError")
                 ELSE Ret(FinL(AvgRLogR(values, weights, Average(values, weights))))
        ELSE Ret(FinL(AvgRLogR(values, Ones(Len(values)), Mean(values))))

theil_t(values_in, weights_in) ==
    LET values == Positive(values_in)
    IN  IF Len(values) = 0 THEN Ret(Zero)
        ELSE IF ~weights_in.none
        THEN \* weights[values > 0]: the mask is taken of the filtered values, so
             \* it is all True and as long as they are
             IF Len(weights_in.arr) # Len(values) THEN Raise("IndexError")
             \* np.average: "Weights sum to zero, can't be normalized"
             ELSE IF RSum(weights_in.arr) = RZero THEN Raise("ZeroDivisionError")
             ELSE LET weights == weights_in.arr
                      mean_val == Average(values, weights)
                  IN  \* a mean <= 0 takes a negative weight: the logarithm of a
                      \* ratio <= 0 is nan
                      IF RSign(mean_val) <= 0 THEN Ret(NaN)
                      ELSE Ret(FinL(AvgRLogR(values, weights, mean_val)))
        ELSE LET mean_val == Mean(values)
             IN  Ret(FinL(AvgRLogR(values, Ones(Len(values)), mean_val)))

theil_l(values_in, weights_in) ==
    LET values == Positive(values_in)
    IN  IF Len(values) = 0 THEN Ret(Zero)
        ELSE IF ~weights_in.none
        THEN IF Len(weights_in.arr) # Len(values) THEN Raise("IndexError")
             ELSE IF RSum(weights_in.arr) = RZero THEN Raise("ZeroDivisionError")
             ELSE LET weights == weights_in.arr
                      mean_val == Average(values, weights)
                  IN  IF RSign(mean_val) <= 0 THEN Ret(NaN)
                      ELSE Ret(FinL(AvgLogInv(values, weights, mean_val)))
        ELSE LET mean_val == Mean(values)
             IN  Ret(FinL(AvgLogInv(values, Ones(Len(values)), mean_val)))

(***************************************************************************)
(* Float arithmetic on reals with inf, -inf and nan.                       *)
(***************************************************************************)
\* bounds of 10^6 * ln(p), for the sign of a combination of logarithms
LnLow(p) ==
    CASE p = 2 -> 693147 [] p = 3 -> 1098612 [] p = 5 -> 1609437
      [] p = 7 -> 1945910 [] p = 11 -> 2397895 [] p = 13 -> 2564949
      [] p = 17 -> 2833213 [] p = 19 -> 2944438 [] p = 23 -> 3135494

RECURSIVE LCM(_)
LCM(S) ==
    IF S = {} THEN 1
    ELSE LET x == CHOOSE y \in S : TRUE
             m == LCM(S \ {x})
         IN  (x * m) \div GCD(x, m)

RECURSIVE IntSum(_, _)
IntSum(f, S) ==
    IF S = {} THEN 0
    ELSE LET x == CHOOSE y \in S : TRUE IN f[x] + IntSum(f, S \ {x})

\* the sign of SUM_p l[p] * ln(p): 0 for the zero combination, else the sign of
\* the interval that the bounds of the logarithms give it (2: the interval
\* holds zero, the sign is not decided at this precision)
SignLL(l) ==
    LET d == LCM({l[p][2] : p \in Primes})
        e == [p \in Primes |-> l[p][1] * (d \div l[p][2])]
        lo == IntSum([p \in Primes |-> IF e[p] > 0 THEN e[p] * LnLow(p)
                                       ELSE e[p] * (LnLow(p) + 1)], Primes)
        hi == IntSum([p \in Primes |-> IF e[p] > 0 THEN e[p] * (LnLow(p) + 1)
                                       ELSE e[p] * LnLow(p)], Primes)
    IN  IF l = ZeroLL THEN 0
        ELSE IF lo > 0 THEN 1
        ELSE IF hi < 0 THEN -1
        ELSE 2

\* the sign of a real: of an infinity, of a rational, or of a combination of
\* logarithms (no function adds a non-zero rational to one)
SignOf(x) ==
    IF x.k = "inf" THEN 1
    ELSE IF x.k = "ninf" THEN -1
    ELSE IF x.l = ZeroLL THEN RSign(x.q)
    ELSE IF x.q = RZero THEN SignLL(x.l)
    ELSE 2

\* x > 0 of floats: False for nan
GtZero(x) == x.k # "nan" /\ SignOf(x) = 1

Signed(s) == IF s > 0 THEN Inf ELSE IF s < 0 THEN NInf ELSE NaN

\* x + y
FloatAdd(x, y) ==
    IF x.k = "nan" \/ y.k = "nan" THEN NaN
    ELSE IF x.k = "fin" /\ y.k = "fin"
         THEN [k |-> "fin", q |-> RAdd(x.q, y.q), l |-> LLAdd(x.l, y.l)]
    ELSE IF x.k = "fin" THEN y
    ELSE IF y.k = "fin" THEN x
    ELSE IF x.k = y.k THEN x
    ELSE NaN

\* s * x, where s is a rational, an infinity or nan
FloatMul(s, x) ==
    IF s.k = "nan" \/ x.k = "nan" THEN NaN
    ELSE IF s.k = "fin" /\ x.k = "fin"
         THEN [k |-> "fin", q |-> RMul(s.q, x.q), l |-> LLScale(s.q, x.l)]
    \* 0 * inf is nan
    ELSE Signed(SignOf(s) * SignOf(x))

\* np.log of a float
FloatLog(q) ==
    IF RSign(q) > 0 THEN FinL(LnR(q))
    ELSE IF q = RZero THEN NInf
    ELSE NaN

\* x / y of two floats, y finite and not zero: a rational when x is a rational
\* multiple of y, else the quotient as it stands
Quot(x, y) ==
    IF x.k = "nan" THEN NaN
    ELSE IF x.k # "fin" THEN Signed(SignOf(x) * SignOf(y))
    ELSE IF y.l = ZeroLL THEN [k |-> "fin", q |-> RDiv(x.q, y.q),
                               l |-> LLScale(RDiv(ROne, y.q), x.l)]
    ELSE LET p == CHOOSE r \in Primes : y.l[r] # RZero
             c == RDiv(x.l[p], y.l[p])
         IN  IF x.q = RMul(c, y.q) /\ x.l = LLScale(c, y.l) THEN Fin(c)
             ELSE [k |-> "quot", num |-> x, den |-> y]

(***************************************************************************)
(* theil_decomposition                                                     *)
(***************************************************************************)
\* np.unique(groups): the labels that occur, in ascending order
RECURSIVE SortedSeq(_)
SortedSeq(S) ==
    IF S = {} THEN <<>>
    ELSE LET m == CHOOSE x \in S : \A y \in S : x <= y
         IN  <<m>> \o SortedSeq(S \ {m})

Unique(groups) == SortedSeq({groups[i] : i \in 1..Len(groups)})

\* arr[groups == g]
RECURSIVE Masked(_, _, _)
Masked(arr, groups, g) ==
    IF arr = <<>> THEN <<>>
    ELSE (IF Head(groups) = g THEN <<Head(arr)>> ELSE <<>>)
         \o Masked(Tail(arr), Tail(groups), g)

\* a plausible slip: the between term weighted by the population share
GroupStep_pop_share(acc, g, values, groups, weights_arr, overall_mean) ==
    LET g_vals == Masked(values, groups, g)
        g_weights == Masked(weights_arr, groups, g)
        g_mean == Average(g_vals, g_weights)
        g_income_share == FloatDiv(RSum(VMul(g_vals, g_weights)),
                                   RSum(VMul(values, weights_arr)))
        g_theil == theil_t(g_vals, Some(g_weights))
        within == FloatAdd(acc.within, FloatMul(g_income_share, g_theil.val))
        g_pop_share == FloatDiv(RSum(g_weights), RSum(weights_arr))
        between == IF RSign(overall_mean) > 0
                   THEN FloatAdd(acc.between,
                            FloatMul(g_pop_share,
                                     FloatLog(RDiv(g_mean, overall_mean))))
                   ELSE acc.between
    IN  \* np.average of the group: its weights sum to zero
        IF RSum(g_weights) = RZero
        THEN [status |-> "raise", exc |-> "ZeroDivisionError",
              within |-> acc.within, between |-> acc.between]
        ELSE IF g_theil.status = "raise"
        THEN [status |-> "raise", exc |-> g_theil.exc,
              within |-> acc.within, between |-> acc.between]
        ELSE [status |-> "return", exc |-> "none",
              within |-> within, between |-> between]

\* the body of the loop over the groups for the group g, from the sums acc
GroupStep(acc, g, values, groups, weights_arr, overall_mean) ==
    LET g_vals == Masked(values, groups, g)
        g_weights == Masked(weights_arr, groups, g)
        g_mean == Average(g_vals, g_weights)
        g_income_share == FloatDiv(RSum(VMul(g_vals, g_weights)),
                                   RSum(VMul(values, weights_arr)))
        g_theil == theil_t(g_vals, Some(g_weights))
        within == FloatAdd(acc.within, FloatMul(g_income_share, g_theil.val))
        between == IF RSign(overall_mean) > 0
                   THEN FloatAdd(acc.between,
                            FloatMul(g_income_share,
                                     FloatLog(RDiv(g_mean, overall_mean))))
                   ELSE acc.between
    IN  \* np.average of the group: its weights sum to zero
        IF RSum(g_weights) = RZero
        THEN [status |-> "raise", exc |-> "ZeroDivisionError",
              within |-> acc.within, between |-> acc.between]
        ELSE IF g_theil.status = "raise"
        THEN [status |-> "raise", exc |-> g_theil.exc,
              within |-> acc.within, between |-> acc.between]
        ELSE [status |-> "return", exc |-> "none",
              within |-> within, between |-> between]

\* for g in unique_groups
RECURSIVE GroupLoop(_, _, _, _, _, _)
GroupLoop(acc, gs, values, groups, weights_arr, overall_mean) ==
    IF gs = <<>> \/ acc.status = "raise" THEN acc
    ELSE GroupLoop(GroupStep(acc, Head(gs), values, groups, weights_arr, overall_mean),
                   Tail(gs), values, groups, weights_arr, overall_mean)

theil_decomposition(values, groups, weights) ==
    LET total == theil_t(values, weights)
        weights_arr == IF weights.none THEN Ones(Len(values)) ELSE weights.arr
        overall_mean == Average(values, weights_arr)
        unique_groups == Unique(groups)
        done == GroupLoop([status |-> "return", exc |-> "none",
                           within |-> Zero, between |-> Zero],
                          unique_groups, values, groups, weights_arr, overall_mean)
    IN  IF total.status = "raise" THEN Raise(total.exc)
        \* np.average: "Axis must be specified when shapes of a and weights differ"
        ELSE IF Len(weights_arr) # Len(values) THEN Raise("TypeError")
        \* np.average: "Weights sum to zero, can't be normalized"
        ELSE IF RSum(weights_arr) = RZero THEN Raise("ZeroDivisionError")
        ELSE IF done.status = "raise" THEN Raise(done.exc)
        ELSE Ret([total |-> total.val,
                  within |-> done.within,
                  between |-> done.between,
                  within_share |-> IF GtZero(total.val)
                                   THEN Quot(done.within, total.val) ELSE Zero,
                  between_share |-> IF GtZero(total.val)
                                    THEN Quot(done.between, total.val) ELSE Zero])

(***************************************************************************)
(* The caller's arrays.  Every function rebinds its local names to new     *)
(* arrays; what an operation leaves in the array it was given:             *)
(***************************************************************************)
\* np.asarray(a, dtype=float): a itself when it is a float array, else a copy
AfterAsarray(a) == a

\* np.cumsum, np.sum, np.average, np.argsort, np.unique, a[k], a[:k]: a is read
AfterRead(a) == a

\* a[idx], a[mask]: the selected elements are copied into a new array
AfterIndex(a) == a

\* a plausible slip: a.sort(), which sorts a itself
AfterSort_in_place(a) == Sorted(a)

\* np.sort(a): a sorted copy
AfterSort(a) == a

gini_from_shares_arrays(shares) ==
    [shares |-> AfterRead(AfterAsarray(shares))]

gini_from_values_arrays(values, weights) ==
    IF ~weights.none
    THEN [values |-> AfterIndex(AfterRead(AfterAsarray(values))),
          weights |-> Some(AfterIndex(AfterAsarray(weights.arr)))]
    ELSE [values |-> AfterSort(AfterAsarray(values)), weights |-> weights]

palma_ratio_arrays(decile_shares) ==
    [decile_shares |-> AfterRead(AfterAsarray(decile_shares))]

\* values_at_percentiles[p]: the map is read
percentile_ratio_arrays(values_at_percentiles) ==
    [values_at_percentiles |-> AfterRead(values_at_percentiles)]

\* theil_t and theil_l: asarray, then the mask values > 0 on both arrays
theil_arrays(values, weights) ==
    [values |-> AfterIndex(AfterAsarray(values)),
     weights |-> IF weights.none THEN weights
                 ELSE Some(AfterIndex(AfterAsarray(weights.arr)))]

theil_decomposition_arrays(values, groups, weights) ==
    LET total == theil_arrays(AfterAsarray(values), weights)
    IN  [values |-> AfterIndex(AfterRead(total.values)),
         groups |-> AfterRead(AfterAsarray(groups)),
         weights |-> IF weights.none THEN weights
                     ELSE Some(AfterIndex(AfterRead(AfterAsarray(total.weights.arr))))]

(***************************************************************************)
(* Inputs.                                                                 *)
(***************************************************************************)
SeqsUpTo(S, n) == UNION {[1..m -> S] : m \in 0..n}

\* shares k/d of a whole split into at most MaxLen parts
ShareVals == {Norm(x[1], x[2]) : x \in {y \in (0..MaxLen) \X (1..MaxLen) : y[1] <= y[2]}}

\* decile shares: nothing, a tenth, or three tenths
DecileVals == {RZero, <<1, 10>>, <<3, 10>>}

\* value vectors
Values == {R(i) : i \in ValueInts}
Weights == {R(i) : i \in WeightInts}

\* the weights argument for n values: None, a weight for each value, or a vector
\* of ones that is one entry shorter or longer
WeightArgs(n) ==
    {None} \cup {Some(w) : w \in [1..n -> Weights]}
           \cup {Some(Ones(m)) : m \in {k \in {n - 1, n + 1} : k >= 0}}

\* the weights argument of gini_from_values: those of WeightArgs, or a weight
\* for each value of which some are negative
GiniWeightArgs(n) ==
    WeightArgs(n) \cup {Some(w) : w \in [1..n -> {R(-1), R(1)}]}

\* percentile maps: a value for some of the percentiles
Percentiles == {10, 50, 90}
PercentileValues == {R(0), R(20000), R(200000)}
PercentileMaps == UNION {[S -> PercentileValues] : S \in SUBSET Percentiles}

\* theil_decomposition: non-negative values and two group labels
GroupValues == {v \in Values : RSign(v) >= 0}
Labels == {1, 2}

\* the groups argument for n values: a label for each, or each its own label
Groupings(n) == [1..n -> Labels] \cup {[i \in 1..n |-> i]}

(***************************************************************************)
(* The cache of src/data/cache.py and the loaders that go through it.      *)
(* Time is counted in days (age_days = seconds / 86400).                   *)
(***************************************************************************)
\* max_age_days=30 of the loaders
LoaderMaxAgeDays == 30

\* the instants at which the clock is read: day by day around a direct call,
\* and around the day an entry of a loader goes stale
DirectTimes == 0..MaxDays
LoaderTimes == {0, 1, LoaderMaxAgeDays - 1, LoaderMaxAgeDays}

Procs == {1, 2}

\* what a path holds: nothing, a file being written, a data frame, a time stamp
Absent == [kind |-> "absent"]
Partial == [kind |-> "partial"]
Meta(t) == [kind |-> "meta", time |-> t]
\* the data frame a loader built: for which loader and arguments, from a
\* request that succeeded or not, at which call
DataFrame(loader, fetched, t) ==
    [kind |-> "df", by |-> loader, fetched |-> fetched, at |-> t]

CountryLists == {"A", "B"}
Years == {2019}

\* the loader_fn closures: their function and what they captured
LoaderFn == [name |-> "loader_fn", countries |-> "-", year |-> 0]
Loader(name, countries, year) ==
    [name |-> name, countries |-> countries, year |-> year]

\* the key each caller hands to cached(): the text, and what is formatted
\* into it
CachedKey == <<"key", "-", 0>>
SpiritLevelKey(year) == <<"spirit_level_data", "-", year>>
WellbeingKey(year) == <<"wellbeing_data", "-", year>>
HappinessKey(year) == <<"happiness_scores", "-", year>>
IddGiniKey(countries) == <<"oecd_idd_gini", countries, 0>>

Keys ==
    {CachedKey}
    \cup {SpiritLevelKey(y) : y \in Years} \cup {WellbeingKey(y) : y \in Years}
    \cup {HappinessKey(y) : y \in Years} \cup {IddGiniKey(c) : c \in CountryLists}

\* _cache_path, _meta_path: the md5 of the key names the files (distinct keys
\* are taken to have distinct digests)
CachePath(key) == <<key, "parquet">>
MetaPath(key) == <<key, "meta">>
Paths == {CachePath(k) : k \in Keys} \cup {MetaPath(k) : k \in Keys}

\* a process that is not inside cached()
IdleCall ==
    [pc |-> "idle", key |-> CachedKey, loader |-> LoaderFn, max_age_days |-> 0,
     seen |-> <<Absent, Absent>>, checked_at |-> 0, hit |-> FALSE, loads |-> 0,
     df |-> Absent, ret |-> Ret(Absent), left_at |-> 0]

\* what loader_fn() does at time t: the data frame it returns, or the
\* exception it raises
LoaderOutcomes(loader, t) ==
    IF loader.name = "loader_fn"
    THEN {Ret(DataFrame(loader, TRUE, t)), Raise("Exception")}
    \* _fetch_world_bank_indicator: resp.raise_for_status() is not caught
    ELSE IF loader.name \in {"get_spirit_level_data", "get_wellbeing_data"}
    THEN {Ret(DataFrame(loader, TRUE, t)), Raise("HTTPError")}
    \* get_happiness_scores, get_idd_gini: except Exception: an empty frame
    ELSE {Ret(DataFrame(loader, TRUE, t)), Ret(DataFrame(loader, FALSE, t))}

(***************************************************************************)
(* The state machine.  The functions keep no state: a caller calls one of  *)
(* them (fn, args) and holds its result until it drops it (Return).        *)
(***************************************************************************)
Init ==
    /\ fn = "none"
    /\ args = [shares |-> <<>>]
    /\ result = Ret(Zero)
    /\ arrays = [shares |-> <<>>]
    /\ now = 0
    /\ files = [path \in Paths |-> Absent]
    /\ calls = [p \in Procs |-> IdleCall]
    /\ invoked = [key \in Keys |-> -1]
    /\ stored = [key \in Keys |-> -1]

\* the caller is done with the result of the last call
Return ==
    /\ fn # "none"
    /\ fn' = "none"
    /\ args' = [shares |-> <<>>]
    /\ result' = Ret(Zero)
    /\ arrays' = [shares |-> <<>>]
    /\ UNCHANGED cache_vars

Call_gini_from_shares ==
    /\ fn = "none"
    /\ \E shares \in SeqsUpTo(ShareVals, MaxLen) :
            /\ fn' = "gini_from_shares"
            /\ args' = [shares |-> shares]
            /\ result' = gini_from_shares(shares)
            /\ arrays' = gini_from_shares_arrays(shares)
            /\ UNCHANGED cache_vars

Call_palma_ratio ==
    /\ fn = "none"
    /\ \E decile_shares \in SeqsUpTo(DecileVals, DecileCount + MaxExtra) :
            /\ fn' = "palma_ratio"
            /\ args' = [decile_shares |-> decile_shares]
            /\ result' = palma_ratio(decile_shares)
            /\ arrays' = palma_ratio_arrays(decile_shares)
            /\ UNCHANGED cache_vars

Call_percentile_ratio ==
    /\ fn = "none"
    /\ \E values_at_percentiles \in PercentileMaps, p_high, p_low \in Percentiles :
            /\ fn' = "percentile_ratio"
            /\ args' = [values_at_percentiles |-> values_at_percentiles,
                        p_high |-> p_high, p_low |-> p_low]
            /\ result' = percentile_ratio(values_at_percentiles, p_high, p_low)
            /\ arrays' = percentile_ratio_arrays(values_at_percentiles)
            /\ UNCHANGED cache_vars

Call_gini_from_values ==
    /\ fn = "none"
    /\ \E values \in SeqsUpTo(Values, MaxLen) :
            \E weights \in GiniWeightArgs(Len(values)), sorted_idx \in Argsorts(values) :
                /\ fn' = "gini_from_values"
                /\ args' = [values |-> values, weights |-> weights]
                /\ result' = gini_from_values(values, weights, sorted_idx)
                /\ arrays' = gini_from_values_arrays(values, weights)
                /\ UNCHANGED cache_vars

Call_theil_t ==
    /\ fn = "none"
    /\ \E values \in SeqsUpTo(Values, MaxLen) :
            \E weights \in WeightArgs(Len(values)) :
                /\ fn' = "theil_t"
                /\ args' = [values |-> values, weights |-> weights]
                /\ result' = theil_t(values, weights)
                /\ arrays' = theil_arrays(values, weights)
                /\ UNCHANGED cache_vars

Call_theil_l ==
    /\ fn = "none"
    /\ \E values \in SeqsUpTo(Values, MaxLen) :
            \E weights \in WeightArgs(Len(values)) :
                /\ fn' = "theil_l"
                /\ args' = [values |-> values, weights |-> weights]
                /\ result' = theil_l(values, weights)
                /\ arrays' = theil_arrays(values, weights)
                /\ UNCHANGED cache_vars

Call_theil_decomposition ==
    /\ fn = "none"
    /\ \E values \in SeqsUpTo(GroupValues, MaxLen) :
            \E groups \in Groupings(Len(values)),
               weights \in WeightArgs(Len(values)) :
                /\ fn' = "theil_decomposition"
                /\ args' = [values |-> values, groups |-> groups, weights |-> weights]
                /\ result' = theil_decomposition(values, groups, weights)
                /\ arrays' = theil_decomposition_arrays(values, groups, weights)
                /\ UNCHANGED cache_vars

NextShares == Call_gini_from_shares \/ Return
SpecShares == Init /\ [][NextShares]_vars

NextPalma == Call_palma_ratio \/ Return
SpecPalma == Init /\ [][NextPalma]_vars

NextPercentile == Call_percentile_ratio \/ Return
SpecPercentile == Init /\ [][NextPercentile]_vars

NextGini == Call_gini_from_values \/ Return
SpecGini == Init /\ [][NextGini]_vars

NextTheil == Call_theil_t \/ Call_theil_l \/ Return
SpecTheil == Init /\ [][NextTheil]_vars

NextDecomposition == Call_theil_decomposition \/ Return
SpecDecomposition == Init /\ [][NextDecomposition]_vars

Next ==
    \/ Call_gini_from_shares
    \/ Call_gini_from_values
    \/ Call_palma_ratio
    \/ Call_percentile_ratio
    \/ Call_theil_t
    \/ Call_theil_l
    \/ Call_theil_decomposition
    \/ Return
Spec == Init /\ [][Next]_vars

(***************************************************************************)
(* cached(key, loader_fn, max_age_days), a step at a time, by process p.   *)
(***************************************************************************)
\* the locals of a call of cached() as it is entered
Begin(key, loader, max_age_days) ==
    [IdleCall EXCEPT !.pc = "check", !.key = key, !.loader = loader,
                     !.max_age_days = max_age_days,
                     !.seen = <<files[CachePath(key)], files[MetaPath(key)]>>]

\* a direct call of cached()
Call_cached(p) ==
    /\ calls[p].pc = "idle"
    /\ \E max_age_days \in 1..MaxDays :
            calls' = [calls EXCEPT ![p] = Begin(CachedKey, LoaderFn, max_age_days)]
    /\ UNCHANGED <<now, files, invoked, stored>>
    /\ UNCHANGED measure_vars

Call_get_spirit_level_data(p) ==
    /\ calls[p].pc = "idle"
    /\ \E countries \in CountryLists, year \in Years :
            calls' = [calls EXCEPT ![p] =
                Begin(SpiritLevelKey(year),
                      Loader("get_spirit_level_data", countries, year),
                      LoaderMaxAgeDays)]
    /\ UNCHANGED <<now, files, invoked, stored>>
    /\ UNCHANGED measure_vars

Call_get_wellbeing_data(p) ==
    /\ calls[p].pc = "idle"
    /\ \E countries \in CountryLists, year \in Years :
            calls' = [calls EXCEPT ![p] =
                Begin(WellbeingKey(year),
                      Loader("get_wellbeing_data", countries, year),
                      LoaderMaxAgeDays)]
    /\ UNCHANGED <<now, files, invoked, stored>>
    /\ UNCHANGED measure_vars

Call_get_happiness_scores(p) ==
    /\ calls[p].pc = "idle"
    /\ \E year \in Years :
            calls' = [calls EXCEPT ![p] =
                Begin(HappinessKey(year),
                      Loader("get_happiness_scores", "-", year),
                      LoaderMaxAgeDays)]
    /\ UNCHANGED <<now, files, invoked, stored>>
    /\ UNCHANGED measure_vars

Call_get_idd_gini(p) ==
    /\ calls[p].pc = "idle"
    /\ \E countries \in CountryLists :
            calls' = [calls EXCEPT ![p] =
                Begin(IddGiniKey(countries),
                      Loader("get_idd_gini", countries, 0),
                      LoaderMaxAgeDays)]
    /\ UNCHANGED <<now, files, invoked, stored>>
    /\ UNCHANGED measure_vars

\* a plausible slip: an entry of exactly max_age_days still counts as fresh
Fresh_inclusive(key, max_age_days) ==
    /\ files[CachePath(key)] # Absent
    /\ files[MetaPath(key)] # Absent
    /\ now - files[MetaPath(key)].time <= max_age_days

\* path.exists() and meta.exists() and age_days < max_age_days
Fresh(key, max_age_days) ==
    /\ files[CachePath(key)] # Absent
    /\ files[MetaPath(key)] # Absent
    /\ now - files[MetaPath(key)].time < max_age_days

\* the test of the entry
Check(p) ==
    /\ calls[p].pc = "check"
    /\ LET hit == Fresh(calls[p].key, calls[p].max_age_days)
       IN  calls' = [calls EXCEPT ![p].hit = hit,
                                  ![p].checked_at = now,
                                  ![p].pc = IF hit THEN "read" ELSE "load"]
    /\ UNCHANGED <<now, files, invoked, stored>>
    /\ UNCHANGED measure_vars

\* a plausible slip: a hit renews the time stamp
Read_touch(p) ==
    /\ calls[p].pc = "read"
    /\ calls' = [calls EXCEPT ![p].ret = Ret(files[CachePath(calls[p].key)]),
                              ![p].left_at = now,
                              ![p].pc = "done"]
    /\ files' = [files EXCEPT ![MetaPath(calls[p].key)] = Meta(now)]
    /\ UNCHANGED <<now, invoked, stored>>
    /\ UNCHANGED measure_vars

\* return pd.read_parquet(path): what the file holds at this moment
Read(p) ==
    /\ calls[p].pc = "read"
    /\ calls' = [calls EXCEPT ![p].ret = Ret(files[CachePath(calls[p].key)]),
                              ![p].left_at = now,
                              ![p].pc = "done"]
    /\ UNCHANGED <<now, files, invoked, stored>>
    /\ UNCHANGED measure_vars

\* a plausible slip: the data file is opened for writing before the load
Load_truncating(p) ==
    /\ calls[p].pc = "load"
    /\ \E out \in LoaderOutcomes(calls[p].loader, now) :
            calls' = [calls EXCEPT ![p].loads = @ + 1,
                                   ![p].df = IF out.status = "return"
                                             THEN out.val ELSE @,
                                   ![p].ret = out,
                                   ![p].left_at = now,
                                   ![p].pc = IF out.status = "return"
                                             THEN "to_parquet" ELSE "done"]
    /\ files' = [files EXCEPT ![CachePath(calls[p].key)] = Partial]
    /\ invoked' = [invoked EXCEPT ![calls[p].key] = now]
    /\ UNCHANGED <<now, stored>>
    /\ UNCHANGED measure_vars

\* df = loader_fn(): an exception leaves cached() here
Load(p) ==
    /\ calls[p].pc = "load"
    /\ \E out \in LoaderOutcomes(calls[p].loader, now) :
            calls' = [calls EXCEPT ![p].loads = @ + 1,
                                   ![p].df = IF out.status = "return"
                                             THEN out.val ELSE @,
                                   ![p].ret = out,
                                   ![p].left_at = now,
                                   ![p].pc = IF out.status = "return"
                                             THEN "to_parquet" ELSE "done"]
    /\ invoked' = [invoked EXCEPT ![calls[p].key] = now]
    /\ UNCHANGED <<now, files, stored>>
    /\ UNCHANGED measure_vars

\* df.to_parquet(path) opens the file and writes into it in place
WriteDataBegin(p) ==
    /\ calls[p].pc = "to_parquet"
    /\ files' = [files EXCEPT ![CachePath(calls[p].key)] = Partial]
    /\ calls' = [calls EXCEPT ![p].pc = "writing"]
    /\ UNCHANGED <<now, invoked, stored>>
    /\ UNCHANGED measure_vars

WriteDataEnd(p) ==
    /\ calls[p].pc = "writing"
    /\ files' = [files EXCEPT ![CachePath(calls[p].key)] = calls[p].df]
    /\ calls' = [calls EXCEPT ![p].pc = "write_text"]
    /\ UNCHANGED <<now, invoked, stored>>
    /\ UNCHANGED measure_vars

\* meta.write_text(str(time.time())); return df
WriteMeta(p) ==
    /\ calls[p].pc = "write_text"
    /\ files' = [files EXCEPT ![MetaPath(calls[p].key)] = Meta(now)]
    /\ stored' = [stored EXCEPT ![calls[p].key] = now]
    /\ calls' = [calls EXCEPT ![p].ret = Ret(calls[p].df),
                              ![p].left_at = now,
                              ![p].pc = "done"]
    /\ UNCHANGED <<now, invoked>>
    /\ UNCHANGED measure_vars

\* the caller has the data frame, or the exception
Finish(p) ==
    /\ calls[p].pc = "done"
    /\ calls' = [calls EXCEPT ![p] = IdleCall]
    /\ UNCHANGED <<now, files, invoked, stored>>
    /\ UNCHANGED measure_vars

\* time passes
Tick(times) ==
    /\ \E t \in times : t > now /\ now' = t
    /\ UNCHANGED <<files, calls, invoked, stored>>
    /\ UNCHANGED measure_vars

\* the steps of cached() once it is entered
Steps(p) ==
    \/ Check(p) \/ Read(p) \/ Load(p)
    \/ WriteDataBegin(p) \/ WriteDataEnd(p) \/ WriteMeta(p)
    \/ Finish(p)

\* one process, direct calls of cached()
NextCached == Call_cached(1) \/ Steps(1) \/ Tick(DirectTimes)
SpecCached == Init /\ [][NextCached]_vars

\* one process, the loaders whose key leaves out the countries
NextSpiritLevel ==
    \/ Call_get_spirit_level_data(1)
    \/ Call_get_wellbeing_data(1)
    \/ Steps(1)
    \/ Tick(LoaderTimes)
SpecSpiritLevel == Init /\ [][NextSpiritLevel]_vars

\* one process, the loaders that catch a failed request
NextRemote ==
    \/ Call_get_happiness_scores(1)
    \/ Call_get_idd_gini(1)
    \/ Steps(1)
    \/ Tick(LoaderTimes)
SpecRemote == Init /\ [][NextRemote]_vars

\* several processes, direct calls of cached() with one key
NextConcurrent ==
    (\E p \in Procs : Call_cached(p) \/ Steps(p)) \/ Tick(DirectTimes)
SpecConcurrent == Init /\ [][NextConcurrent]_vars

\* the sign of every total is decided by the bounds of the logarithms
SignsDecided ==
    (fn = "theil_decomposition" /\ result.status = "return")
        => SignOf(result.val.total) # 2

(***************************************************************************)
(* Properties.                                                             *)
(***************************************************************************)
\* the weights argument holds one weight for each value
Aligned == ~args.weights.none /\ Len(args.weights.arr) = Len(args.values)

AllPositive(s) == \A i \in 1..Len(s) : RSign(s[i]) > 0

\* C1: whenever theil_decomposition returns a record for values, groups and
\* optional weights of the same length, within + between equals total.
C1_WithinPlusBetweenIsTotal ==
    (/\ fn = "theil_decomposition"
     /\ (args.weights.none \/ Aligned)
     /\ result.status = "return")
        => FloatAdd(result.val.within, result.val.between) = result.val.total

\* C2: for a non-empty vector of positive values and equal positive weights,
\* gini_from_values returns what it returns for the same values without weights.
C2_UniformWeightsAsUnweighted ==
    (/\ fn = "gini_from_values"
     /\ Aligned
     /\ Len(args.values) > 0
     /\ AllPositive(args.values)
     /\ AllPositive(args.weights.arr)
     /\ \A i, j \in 1..Len(args.values) : args.weights.arr[i] = args.weights.arr[j])
        => result = gini_from_values(args.values, None, <<>>)

\* the weights of the strictly positive values
RECURSIVE PositiveWeights(_, _)
PositiveWeights(values, weights) ==
    IF values = <<>> THEN <<>>
    ELSE (IF RSign(Head(values)) > 0 THEN <<Head(weights)>> ELSE <<>>)
         \o PositiveWeights(Tail(values), Tail(weights))

SubSampleWeights ==
    IF args.weights.none THEN None
    ELSE Some(PositiveWeights(args.values, args.weights.arr))

\* no weights, or a positive weight for each value
WeightsUsable == args.weights.none \/ (Aligned /\ AllPositive(args.weights.arr))

\* C3: theil_t and theil_l (without weights, or with a positive weight for each
\* value) return, without raising, what they return for the strictly positive
\* values with the weights of those values.
C3_NonPositiveDropped ==
    /\ (fn = "theil_t" /\ WeightsUsable)
        => /\ result.status = "return"
           /\ result = theil_t(Positive(args.values), SubSampleWeights)
    /\ (fn = "theil_l" /\ WeightsUsable)
        => /\ result.status = "return"
           /\ result = theil_l(Positive(args.values), SubSampleWeights)

\* C4: a call of gini_from_values, theil_t, theil_l or theil_decomposition with
\* a weight vector of another length than the values raises (the claim names
\* the error InvalidInput; here any exception is accepted).
C4_MismatchedWeightsRaise ==
    (/\ fn \in {"gini_from_values", "theil_t", "theil_l", "theil_decomposition"}
     /\ ~args.weights.none
     /\ Len(args.weights.arr) # Len(args.values))
        => result.status = "raise"

\* a degenerate input of a value function: no strictly positive value, or a
\* weight for each value and all of them zero
Degenerate ==
    /\ fn \in {"gini_from_values", "theil_t", "theil_l", "theil_decomposition"}
    /\ Len(args.values) > 0
    /\ \/ /\ args.weights.none \/ Aligned
          /\ \A i \in 1..Len(args.values) : RSign(args.values[i]) <= 0
       \/ /\ Aligned
          /\ \A i \in 1..Len(args.values) : args.weights.arr[i] = RZero

\* the value returned is 0.0 (for theil_decomposition: each term is 0.0)
ReturnsZero ==
    /\ result.status = "return"
    /\ IF fn = "theil_decomposition"
       THEN /\ result.val.total = Zero
            /\ result.val.within = Zero
            /\ result.val.between = Zero
       ELSE result.val = Zero

\* C5: on a degenerate input (only values <= 0, or zero total weight) a value
\* function returns 0.0: it does not raise and does not return nan.
C5_DegenerateReturnsSentinel == Degenerate => ReturnsZero

\* C6: gini_from_shares of n >= 1 shares that are all 1/n is 0.
C6_EqualSharesGiniZero ==
    (/\ fn = "gini_from_shares"
     /\ Len(args.shares) >= 1
     /\ \A i \in 1..Len(args.shares) : args.shares[i] = <<1, Len(args.shares)>>)
        => result = Ret(Zero)

C6_Witness ==
    /\ fn = "gini_from_shares"
    /\ Len(args.shares) = MaxLen
    /\ \A i \in 1..Len(args.shares) : args.shares[i] = <<1, Len(args.shares)>>
    /\ result = Ret(Zero)

\* C7: gini_from_shares of n >= 1 shares that are 0 but for a last share of 1
\* is exactly 1 - 1/n.
C7_OneHoldsAllGini ==
    (/\ fn = "gini_from_shares"
     /\ Len(args.shares) >= 1
     /\ \A i \in 1..Len(args.shares) :
            args.shares[i] = IF i = Len(args.shares) THEN ROne ELSE RZero)
        => result = Ret(Fin(Norm(Len(args.shares) - 1, Len(args.shares))))

C7_Witness ==
    /\ fn = "gini_from_shares"
    /\ Len(args.shares) = MaxLen
    /\ \A i \in 1..Len(args.shares) :
            args.shares[i] = IF i = Len(args.shares) THEN ROne ELSE RZero
    /\ result.status = "return"
    /\ result.val.q = <<MaxLen - 1, MaxLen>>

\* shares that are non-negative, in ascending order and sum to 1
ValidShares(shares) ==
    /\ Len(shares) >= 1
    /\ \A i \in 1..Len(shares) : RSign(shares[i]) >= 0
    /\ \A i \in 1..(Len(shares) - 1) : RLe(shares[i], shares[i + 1])
    /\ RSum(shares) = ROne

InUnitInterval(x) == x.k = "fin" /\ x.l = ZeroLL /\ RLe(RZero, x.q) /\ RLe(x.q, ROne)

\* C8: for non-negative, ascending shares that sum to 1 gini_from_shares
\* returns a value in [0, 1]; and among the calls a caller can make there is one
\* whose result is outside [0, 1], and one whose result is not the result for
\* the same shares in ascending order.
C8_GiniInUnitInterval ==
    /\ (fn = "gini_from_shares" /\ ValidShares(args.shares))
        => (result.status = "return" /\ InUnitInterval(result.val))
    /\ fn = "none"
        => /\ \E shares \in SeqsUpTo(ShareVals, MaxLen) :
                /\ Len(shares) >= 1
                /\ ~InUnitInterval(gini_from_shares(shares).val)
           /\ \E shares \in SeqsUpTo(ShareVals, MaxLen) :
                gini_from_shares(shares) # gini_from_shares(Sorted(shares))

C8_Witness ==
    /\ fn = "gini_from_shares"
    /\ ValidShares(args.shares)
    /\ Len(args.shares) >= 2
    /\ result.status = "return"
    /\ RLt(RZero, result.val.q)
    /\ RLt(result.val.q, ROne)

\* C9: palma_ratio of a vector that has not exactly 10 entries raises the
\* invalid-input error (ValueError) and returns nothing.
C9_PalmaLengthRejected ==
    (fn = "palma_ratio" /\ Len(args.decile_shares) # DecileCount)
        => result = Raise("ValueError")

C9_Witness ==
    /\ fn = "palma_ratio"
    /\ Len(args.decile_shares) = DecileCount + 1
    /\ RSum(SubSeq(args.decile_shares, 1, 4)) # RZero
    /\ result = Raise("ValueError")

\* the sum of the first four entries
Bottom40(s) == RAdd(RAdd(s[1], s[2]), RAdd(s[3], s[4]))

\* C10: palma_ratio of 10 deciles returns +inf when the first four sum to zero,
\* else the tenth divided by that sum; for ten deciles of 0.1 it returns 0.25.
C10_PalmaValue ==
    (fn = "palma_ratio" /\ Len(args.decile_shares) = DecileCount)
        => /\ result.status = "return"
           /\ Bottom40(args.decile_shares) = RZero => result.val = Inf
           /\ Bottom40(args.decile_shares) # RZero
                => /\ result.val.k = "fin"
                   /\ result.val.l = ZeroLL
                   /\ RMul(result.val.q, Bottom40(args.decile_shares))
                        = args.decile_shares[10]
           /\ (\A i \in 1..10 : args.decile_shares[i] = <<1, 10>>)
                => result.val = Fin(<<1, 4>>)

C10_Witness ==
    /\ fn = "palma_ratio"
    /\ Len(args.decile_shares) = DecileCount
    /\ Bottom40(args.decile_shares) = RZero
    /\ args.decile_shares[10] = RZero
    /\ args.decile_shares[5] # RZero
    /\ result = Ret(Inf)

\* C11: percentile_ratio raises KeyError whenever p_high or p_low is not a key
\* of the map, whatever the other key and its value are, and returns nothing.
C11_MissingPercentileRaises ==
    (/\ fn = "percentile_ratio"
     /\ \/ args.p_high \notin DOMAIN args.values_at_percentiles
        \/ args.p_low \notin DOMAIN args.values_at_percentiles)
        => result = Raise("KeyError")

C11_Witness ==
    /\ fn = "percentile_ratio"
    /\ args.p_high \notin DOMAIN args.values_at_percentiles
    /\ args.p_low \in DOMAIN args.values_at_percentiles
    /\ args.values_at_percentiles[args.p_low] = RZero
    /\ result = Raise("KeyError")

\* C12: with both percentiles in the map, percentile_ratio returns +inf when
\* the value at p_low is zero and else the value at p_high divided by it;
\* {10: 20000, 90: 200000} with 90, 10 gives 10.
C12_PercentileRatioValue ==
    (/\ fn = "percentile_ratio"
     /\ args.p_high \in DOMAIN args.values_at_percentiles
     /\ args.p_low \in DOMAIN args.values_at_percentiles)
        => LET high == args.values_at_percentiles[args.p_high]
               low == args.values_at_percentiles[args.p_low]
           IN  /\ result.status = "return"
               /\ low = RZero => result.val = Inf
               /\ low # RZero
                    => /\ result.val.k = "fin"
                       /\ result.val.l = ZeroLL
                       /\ RMul(result.val.q, low) = high
               /\ (/\ args.p_high = 90
                   /\ args.p_low = 10
                   /\ high = R(200000)
                   /\ low = R(20000)) => result.val = Fin(R(10))

C12_Witness ==
    /\ fn = "percentile_ratio"
    /\ args.values_at_percentiles = (10 :> R(20000) @@ 90 :> R(200000))
    /\ args.p_high = 90
    /\ args.p_low = 10
    /\ result = Ret(Fin(R(10)))

\* every value is the same positive number
ConstantPositive(values) ==
    /\ Len(values) >= 1
    /\ RSign(values[1]) > 0
    /\ \A i \in 1..Len(values) : values[i] = values[1]

C14_NoPositiveValueTheilZero ==
    (/\ fn \in {"theil_t", "theil_l"}
     /\ \A i \in 1..Len(args.values) : RSign(args.values[i]) <= 0)
        => result = Ret(Zero)

C14_Witness ==
    /\ fn = "theil_t"
    /\ Len(args.values) >= 2
    /\ \A i \in 1..Len(args.values) : RSign(args.values[i]) <= 0
    /\ ~args.weights.none
    /\ Len(args.weights.arr) # Len(args.values)
    /\ result = Ret(Zero)

\* C15: gini_from_values of an empty value vector, without weights or with an
\* empty weight vector, returns 0.0.
C15_EmptyGiniZero ==
    (/\ fn = "gini_from_values"
     /\ args.values = <<>>
     /\ (args.weights.none \/ Aligned))
        => result = Ret(Zero)

\* the weights gini_from_values reads: the first len(values) of them
ReadWeights == SubSeq(args.weights.arr, 1, Len(args.values))

\* total_value * total_weight / 2
HalfProduct ==
    RDiv(RMul(RSum(VMul(args.values, ReadWeights)), RSum(ReadWeights)), R(2))

\* the sum over the observations i of value_i * weight_i * (the weight of the
\* smaller values, plus half the weight of the equal values and of i itself):
\* sum(cum_weight_i * value_i * weight_i), whatever the order of equal values
RankedSum ==
    LET n == Len(args.values)
        below(i) == RSum([j \in 1..n |->
                        IF RLt(args.values[j], args.values[i])
                        THEN ReadWeights[j] ELSE RZero])
        equal(i) == RSum([j \in 1..n |->
                        IF args.values[j] = args.values[i]
                        THEN ReadWeights[j] ELSE RZero])
    IN  RSum([i \in 1..n |->
            RMul(RMul(args.values[i], ReadWeights[i]),
                 RAdd(below(i), RDiv(RAdd(equal(i), ReadWeights[i]), R(2))))])

\* C16: a weighted gini_from_values call that reaches the denominator D =
\* total_value * total_weight / 2 (a value and a weight to read for it) returns
\* 0.0 when D <= 0 and (sum(cum_weight_i * value_i * weight_i) - D) / D otherwise.
C16_WeightedGiniDenominator ==
    (/\ fn = "gini_from_values"
     /\ ~args.weights.none
     /\ Len(args.values) >= 1
     /\ Len(args.weights.arr) >= Len(args.values))
        => /\ RSign(HalfProduct) <= 0 => result = Ret(Zero)
           /\ RSign(HalfProduct) > 0
                => /\ result.status = "return"
                   /\ result.val.k = "fin"
                   /\ result.val.l = ZeroLL
                   /\ RMul(result.val.q, HalfProduct) = RSub(RankedSum, HalfProduct)

C16_Witness ==
    /\ fn = "gini_from_values"
    /\ Aligned
    /\ Len(args.values) = MaxLen
    /\ RSign(HalfProduct) < 0
    /\ \E i \in 1..MaxLen : RSign(args.values[i]) > 0 /\ RSign(args.weights.arr[i]) > 0
    /\ result = Ret(Zero)

\* C20: gini_from_values with a weight for each value, one of them negative,
\* raises instead of returning a coefficient.
C20_NegativeWeightRejected ==
    (/\ fn = "gini_from_values"
     /\ Aligned
     /\ \E i \in 1..Len(args.values) : RSign(args.weights.arr[i]) < 0)
        => result.status = "raise"

\* whenever theil_decomposition returns, the shares are 0 for a total that is
\* not > 0, and share * total is the component otherwise
IsShare(share, x, total) ==
    IF share.k = "quot" THEN share.num = x /\ share.den = total
    ELSE IF share.k = "fin" THEN FloatMul(share, total) = x
    ELSE share.k = x.k

SharesOfTotal ==
    (fn = "theil_decomposition" /\ result.status = "return")
        => IF GtZero(result.val.total)
           THEN /\ IsShare(result.val.within_share, result.val.within, result.val.total)
                /\ IsShare(result.val.between_share, result.val.between, result.val.total)
           ELSE /\ result.val.within_share = Zero
                /\ result.val.between_share = Zero

\* C17: theil_decomposition (values, groups and optional weights of the same
\* length) whose total, theil_t(values, weights), is 0 returns a record with
\* within_share = 0 and between_share = 0 and raises no division by zero; with
\* a total > 0 the shares it returns are within/total and between/total.
C17_ZeroTotalZeroShares ==
    (/\ fn = "theil_decomposition"
     /\ (args.weights.none \/ Aligned))
        => /\ theil_t(args.values, args.weights) = Ret(Zero)
                => /\ result.status = "return"
                   /\ result.val.within_share = Zero
                   /\ result.val.between_share = Zero
           /\ (result.status = "return" /\ GtZero(result.val.total))
                => /\ IsShare(result.val.within_share, result.val.within,
                              result.val.total)
                   /\ IsShare(result.val.between_share, result.val.between,
                              result.val.total)

RECURSIVE PairOrder(_, _, _)
PairOrder(values, weights, left) ==
    IF left = {} THEN <<>>
    ELSE LET i == CHOOSE k \in left : \A m \in left :
                      \/ RLt(values[k], values[m])
                      \/ values[k] = values[m] /\ RLe(weights[k], weights[m])
         IN  <<i>> \o PairOrder(values, weights, left \ {i})

\* the sequence s taken in the order p
Permuted(s, p) == [i \in 1..Len(s) |-> s[p[i]]]

\* C21: gini_from_values (without weights, or with a weight for each value)
\* returns what it returns for the same (value, weight) pairs put in the order
\* of their values and weights, whatever order the sort gives equal values:
\* the result is the same for every joint reordering of the pairs.
C21_GiniPermutationInvariant ==
    (/\ fn = "gini_from_values"
     /\ (args.weights.none \/ Aligned))
        => LET n == Len(args.values)
               order == PairOrder(args.values,
                                  IF args.weights.none THEN args.values
                                  ELSE args.weights.arr, 1..n)
               values == Permuted(args.values, order)
               weights == IF args.weights.none THEN None
                          ELSE Some(Permuted(args.weights.arr, order))
           IN  gini_from_values(values, weights, [i \in 1..n |-> i]) = result

C21_Witness ==
    /\ fn = "gini_from_values"
    /\ Aligned
    /\ Len(args.values) = MaxLen
    /\ \E i, j \in 1..MaxLen :
          /\ i < j
          /\ args.values[i] = args.values[j]
          /\ args.weights.arr[i] # args.weights.arr[j]
    /\ \E i \in 1..(MaxLen - 1) : RLt(args.values[i + 1], args.values[i])
    /\ result.status = "return"
    /\ result.val.k = "fin"
    /\ result.val # Zero

\* C29: theil_decomposition with a value for each label (and for each weight),
\* some of the values <= 0, returns a record whose total, within and between are
\* those of the strictly positive observations alone.
C29_DecompositionOverPositive ==
    (/\ fn = "theil_decomposition"
     /\ (args.weights.none \/ Aligned)
     /\ Len(args.values) >= 1
     /\ \E i \in 1..Len(args.values) : RSign(args.values[i]) <= 0)
        => LET weights_arr == IF args.weights.none THEN Ones(Len(args.values))
                              ELSE args.weights.arr
               kept == theil_decomposition(Positive(args.values),
                          PositiveWeights(args.values, args.groups),
                          IF args.weights.none THEN None
                          ELSE Some(PositiveWeights(args.values, weights_arr)))
           IN  /\ result.status = "return"
               /\ kept.status = "return" =>
                    /\ result.val.total = kept.val.total
                    /\ result.val.within = kept.val.within
                    /\ result.val.between = kept.val.between

\* C30: gini_from_values of a non-empty vector of identical positive values
\* returns 0, without weights and with a positive weight for each value.
C30_IdenticalValuesGiniZero ==
    (/\ fn = "gini_from_values"
     /\ Len(args.values) >= 1
     /\ ConstantPositive(args.values)
     /\ WeightsUsable)
        => result = Ret(Zero)

Done(p) == calls[p].pc = "done"

\* as the call saw the entry: both files there, and the time stamp younger
\* than max_age_days
SeenFresh(p) ==
    /\ calls[p].seen[1] # Absent
    /\ calls[p].seen[2] # Absent
    /\ calls[p].checked_at - calls[p].seen[2].time < calls[p].max_age_days

\* C22: a call of cached() that finds the data file and the meta file with a
\* time stamp younger than max_age_days returns the stored data and does not
\* call loader_fn; any other call calls loader_fn once and, when that returns,
\* writes its result to the data file, the time to the meta file, and returns
\* the result.
C22_HitOrLoad ==
    \A p \in Procs :
        Done(p) =>
            LET c == calls[p]
            IN  IF SeenFresh(p)
                THEN /\ c.hit
                     /\ c.loads = 0
                     /\ c.ret = Ret(c.seen[1])
                ELSE /\ ~c.hit
                     /\ c.loads = 1
                     /\ c.ret.status = "return" =>
                            /\ c.ret.val.kind = "df"
                            /\ c.ret.val.at >= c.checked_at
                            /\ files[CachePath(c.key)] = c.ret.val
                            /\ files[MetaPath(c.key)] = Meta(c.left_at)

\* a stale entry, both files there, was loaded anew
C22_Witness ==
    /\ Done(1)
    /\ calls[1].seen[1] # Absent
    /\ calls[1].seen[2] # Absent
    /\ calls[1].checked_at - calls[1].seen[2].time = calls[1].max_age_days
    /\ calls[1].max_age_days = MaxDays
    /\ ~calls[1].hit
    /\ calls[1].ret.status = "return"
    /\ files[CachePath(calls[1].key)] # calls[1].seen[1]

\* C23 as stated: once every call has returned, the time stamp of a key is the
\* time of the last call of loader_fn for it.
C23_MetaIsLastInvocation ==
    (\A p \in Procs : calls[p].pc = "idle")
        => \A key \in Keys :
              invoked[key] # -1 => files[MetaPath(key)] = Meta(invoked[key])

\* C23, amended: the time stamp of a key is the time the last loaded result
\* was stored; a hit leaves both files as they were, and is a hit because less
\* than max_age_days have passed since that time.
C23_MetaIsLastStore ==
    /\ \A key \in Keys :
          files[MetaPath(key)] =
              IF stored[key] = -1 THEN Absent ELSE Meta(stored[key])
    /\ \A p \in Procs :
          (Done(p) /\ calls[p].hit) =>
              /\ files[CachePath(calls[p].key)] = calls[p].seen[1]
              /\ files[MetaPath(calls[p].key)] = calls[p].seen[2]
              /\ calls[p].checked_at - stored[calls[p].key] < calls[p].max_age_days

\* a hit, later than the load and after a call of loader_fn that took time
C23_Witness ==
    /\ Done(1)
    /\ calls[1].hit
    /\ calls[1].left_at > stored[calls[1].key]
    /\ stored[calls[1].key] > invoked[calls[1].key]

\* C24: when loader_fn raises, cached() raises and the data file and the meta
\* file of the key are as they were before the call.
C24_RaiseLeavesEntry ==
    \A p \in Procs :
        (Done(p) /\ calls[p].loads > 0 /\ calls[p].ret.status = "raise") =>
            /\ files[CachePath(calls[p].key)] = calls[p].seen[1]
            /\ files[MetaPath(calls[p].key)] = calls[p].seen[2]

\* the loader raised on a stale entry
C24_Witness ==
    /\ Done(1)
    /\ calls[1].ret = Raise("Exception")
    /\ calls[1].seen[1] # Absent
    /\ calls[1].seen[2] # Absent
    /\ files[CachePath(calls[1].key)] = calls[1].seen[1]
    /\ files[MetaPath(calls[1].key)] = calls[1].seen[2]

\* C25: with several processes in cached() for one key, a call that saw a
\* fresh time stamp never returns what it read from a data file that another
\* call was rewriting.
C25_NoReadDuringWrite ==
    \A p \in Procs : (Done(p) /\ calls[p].hit) => calls[p].ret # Ret(Partial)

\* C26: get_spirit_level_data and get_wellbeing_data return data for the
\* countries they were called with, also while an entry made for other
\* countries and the same year is fresh.
C26_DataForTheCountriesAsked ==
    \A p \in Procs :
        (/\ Done(p)
         /\ calls[p].loader.name \in {"get_spirit_level_data", "get_wellbeing_data"}
         /\ calls[p].ret.status = "return")
            => calls[p].ret.val.by.countries = calls[p].loader.countries

\* C27: get_happiness_scores and get_idd_gini never return from the cache the
\* empty result of a request that failed.
C27_FailedFetchNotServed ==
    \A p \in Procs :
        (/\ Done(p)
         /\ calls[p].loader.name \in {"get_happiness_scores", "get_idd_gini"}
         /\ calls[p].hit)
            => calls[p].ret.val.fetched

====
